---- MODULE Spec2Model ----
(***************************************************************************)
(* pylonctl: acquisition configuration (prepare_acq, set_trigger) and the  *)
(* frame sequencer (Acquisition) with the front ends that drive it.        *)
(*                                                                         *)
(* Units.  Times are integers counting microseconds: the plan's exposure   *)
(* and latency (seconds in the source) are held as seconds * 10^6, so the  *)
(* source's `exposure * 1e6` is the held integer and `exposure / 50.0` is  *)
(* the held integer divided by 50 * 10^6.                                  *)
(*                                                                         *)
(* Device.  The camera is a register file: a write to a node the device    *)
(* does not have raises LogicalError, a geometry write whose offset + size *)
(* would leave the sensor raises OutOfRange, every other write is stored.  *)
(* Every attempted write is appended to the device's log with its status.  *)
(* A device can also refuse the writes of some registers (d.rejects): a     *)
(* value outside the limits of that device, a node that is not writable.    *)
(***************************************************************************)
EXTENDS Integers, Sequences, FiniteSets, TLC

VARIABLES
    config, \* the Configuration handler registered on the camera
    dev,    \* the camera's registers, nodes and the log of the writes of the last call
    acq,    \* the Acquisition object
    calls,  \* history: the prepare() / set_trigger() calls made so far
    cam,    \* the SDK's grab engine: open, grabbing, frames left of StartGrabbingMax
    fe,     \* the front end that drives the sequencer
    th,     \* the acquisition thread: position, exception that ended it, loop counter
    ui,     \* the GUI main thread: position, events, task reference
    hist,   \* history: frames yielded, StopGrabbing calls, external stop requests,
            \* results retrieved and not released, the SDK calls of __next__,
            \* the __next__ calls made while on_stop waits in join, ...
    workers,\* several acquisition threads: the workers of `acquire camera ...`,
            \* the threads a GUI starts one after the other
    cams,   \* the grab engines of the cameras those threads work on
    main,   \* the thread that creates those threads and waits for them
    cmd,    \* the `param write` command: arguments, position, writes, exit code
    lima    \* the Lima Interface: status, acquisition reference, thread

auxVars == <<workers, cams, main, cmd, lima>>
vars == <<config, dev, acq, calls, cam, fe, th, ui, hist, auxVars>>
seqVars == <<config, cam, fe, th, ui, hist, auxVars>>

(* ---------------------------------------------------------------- bounds *)
MaxW == 3
MaxH == 2
MaxCalls == 2
MaxTrigCalls == 2
MaxFrames == 2
MaxStops == 2
MaxParams == 2
MaxRuns == 2
MaxCams == 2
MaxThreads == 2

(* ------------------------------------------------------------- constants *)
MicroPerSecond == 1000000
TimeBaseInit == 100
RawDivisor == 50
MilliPerSecond == 1000
TriggerReadyMs == 100

None == <<>>

(* ---------------------------------------------------------------- device *)
OptionalNodes ==
    {"ExposureTime", "ExposureTimeAbs", "ExposureTimeBaseAbs", "ExposureTimeRaw",
     "BinningHorizontal", "BinningVertical"}

SelectorScoped == {"TriggerMode", "TriggerSource", "TriggerActivation"}

\* the outcome of the device for one attribute write
NodeStatus(d, reg, val) ==
    IF reg \in OptionalNodes /\ reg \notin d.nodes THEN "LogicalError"
    ELSE IF reg \in d.rejects THEN "AccessError"
    ELSE CASE reg = "OffsetX" ->
                IF val >= 0 /\ val + d.regs.Width <= d.WidthMax
                THEN "ok" ELSE "OutOfRange"
           [] reg = "OffsetY" ->
                IF val >= 0 /\ val + d.regs.Height <= d.HeightMax
                THEN "ok" ELSE "OutOfRange"
           [] reg = "Width" ->
                IF val >= 1 /\ d.regs.OffsetX + val <= d.WidthMax
                THEN "ok" ELSE "OutOfRange"
           [] reg = "Height" ->
                IF val >= 1 /\ d.regs.OffsetY + val <= d.HeightMax
                THEN "ok" ELSE "OutOfRange"
           [] OTHER -> "ok"

Store(d, reg, val) ==
    IF reg \in SelectorScoped
    THEN [d EXCEPT !.trig[d.regs.TriggerSelector][reg] = val]
    ELSE [d EXCEPT !.regs[reg] = val]

\* camera.<reg> = val, skipped when an exception is already propagating
SetAttr(d, reg, val) ==
    IF d.exc # "none" THEN d
    ELSE LET st == NodeStatus(d, reg, val)
             logged == [d EXCEPT !.log = Append(@, <<reg, val, st>>)]
         IN  IF st = "ok" THEN Store(logged, reg, val)
             ELSE [logged EXCEPT !.exc = st]

\* except genicam.LogicalErrorException:
Caught(d) == IF d.exc = "LogicalError" THEN [d EXCEPT !.exc = "none"] ELSE d

CeilDiv(a, b) == (a + b - 1) \div b

(* ------------------------------------------------------------ prepare_acq *)
\* raw = math.ceil(exposure / 50.0), exposure in seconds
RawCount_Floor(exposure) == exposure \div (RawDivisor * MicroPerSecond)

RawCount(exposure) == CeilDiv(exposure, RawDivisor * MicroPerSecond)

BaseRawScheme(d, exposure) ==
    LET d1 == SetAttr(d, "ExposureTimeBaseAbs", TimeBaseInit)
        raw == RawCount(exposure)
        d2 == SetAttr(d1, "ExposureTimeRaw", raw)
    IN  IF d2.exc # "none" THEN d2
        ELSE IF raw = 0 THEN [d2 EXCEPT !.exc = "ZeroDivisionError"]
        ELSE SetAttr(d2, "ExposureTimeBaseAbs", exposure \div raw)

ResolveExposure_AbsFirst(d, exposure) ==
    LET d1 == SetAttr(d, "ExposureTimeAbs", exposure)
    IN  IF d1.exc # "LogicalError" THEN d1
        ELSE LET d2 == SetAttr(Caught(d1), "ExposureTime", exposure)
             IN  IF d2.exc # "LogicalError" THEN d2
                 ELSE BaseRawScheme(Caught(d2), exposure)

ResolveExposure(d, exposure) ==
    LET d1 == SetAttr(d, "ExposureTime", exposure)
    IN  IF d1.exc # "LogicalError" THEN d1
        ELSE LET d2 == SetAttr(Caught(d1), "ExposureTimeAbs", exposure)
             IN  IF d2.exc # "LogicalError" THEN d2
                 ELSE BaseRawScheme(Caught(d2), exposure)

SetFramePacing_NoRate(d, exposure, latency) ==
    IF d.exc # "none" THEN d
    ELSE SetAttr(d, "AcquisitionFrameRateEnable", latency >= 1)

\* the rate 1 / period is held in millihertz
SetFramePacing(d, exposure, latency) ==
    IF d.exc # "none" THEN d
    ELSE IF latency < 1
         THEN SetAttr(d, "AcquisitionFrameRateEnable", FALSE)
         ELSE SetAttr(SetAttr(d, "AcquisitionFrameRateEnable", TRUE),
                      "AcquisitionFrameRateAbs",
                      (1000 * MicroPerSecond) \div (latency + exposure))

ResetGeometry(d, pixel_format) ==
    IF d.exc # "none" THEN d
    ELSE LET b  == Caught(SetAttr(SetAttr(d, "BinningHorizontal", 1),
                                  "BinningVertical", 1))
             d1 == SetAttr(b, "OffsetX", 0)
             d2 == SetAttr(d1, "OffsetY", 0)
             d3 == SetAttr(d2, "Width", d2.WidthMax)
             d4 == SetAttr(d3, "Height", d3.HeightMax)
         IN  SetAttr(d4, "PixelFormat", pixel_format)

ApplyRoi_OffsetFirst(d, roi) ==
    IF d.exc # "none" THEN d
    ELSE LET r  == IF roi = None THEN <<0, 0, d.WidthMax, d.HeightMax>> ELSE roi
             d1 == SetAttr(d, "OffsetX", r[1])
             d2 == SetAttr(d1, "OffsetY", r[2])
             d3 == SetAttr(d2, "Width", r[3])
         IN  SetAttr(d3, "Height", r[4])

ApplyRoi(d, roi) ==
    IF d.exc # "none" THEN d
    ELSE LET r  == IF roi = None THEN <<0, 0, d.WidthMax, d.HeightMax>> ELSE roi
             d1 == SetAttr(d, "Width", r[3])
             d2 == SetAttr(d1, "Height", r[4])
             d3 == SetAttr(d2, "OffsetX", r[1])
         IN  SetAttr(d3, "OffsetY", r[2])

ApplyBinning(d, binning) ==
    IF d.exc # "none" THEN d
    ELSE IF binning # <<1, 1>>
         THEN SetAttr(SetAttr(d, "BinningHorizontal", binning[1]),
                      "BinningVertical", binning[2])
         ELSE d

prepare_acq_BinningFirst(d, exposure, latency, roi, binning, pixel_format) ==
    ApplyRoi(
        ApplyBinning(
            ResetGeometry(
                SetFramePacing(ResolveExposure(d, exposure), exposure, latency),
                pixel_format),
            binning),
        roi)

prepare_acq(d, exposure, latency, roi, binning, pixel_format) ==
    ApplyBinning(
        ApplyRoi(
            ResetGeometry(
                SetFramePacing(ResolveExposure(d, exposure), exposure, latency),
                pixel_format),
            roi),
        binning)

(* ------------------------------------------------------ Acquisition.prepare *)
AcquisitionPrepare_NoGuard(a, d) ==
    LET d2 == prepare_acq(d, a.exposure, a.latency, a.roi, a.binning, a.pixel_format)
    IN  [acq |-> [a EXCEPT !.prepared = (d2.exc = "none") \/ @], dev |-> d2]

AcquisitionPrepare_FlagFirst(a, d) ==
    IF a.prepared THEN [acq |-> a, dev |-> d]
    ELSE [acq |-> [a EXCEPT !.prepared = TRUE],
          dev |-> prepare_acq(d, a.exposure, a.latency, a.roi, a.binning,
                              a.pixel_format)]

AcquisitionPrepare(a, d) ==
    IF a.prepared THEN [acq |-> a, dev |-> d]
    ELSE LET d2 == prepare_acq(d, a.exposure, a.latency, a.roi, a.binning,
                               a.pixel_format)
         IN  [acq |-> [a EXCEPT !.prepared = (d2.exc = "none")], dev |-> d2]

(* -------------------------------------------------------------- set_trigger *)
TRIGGER_SOURCE_MAP == [internal |-> "Off", line1 |-> "Line1", software |-> "Software"]

\* source.lower() on the spellings the callers use
Lower(s) ==
    CASE s = "Internal" -> "internal"
      [] s = "Software" -> "software"
      [] s = "Line1" -> "line1"
      [] OTHER -> s

Contains(seq, x) == \E i \in 1..Len(seq) : seq[i] = x

ResetSelectors_FirstOnly(d, sels) ==
    IF sels = <<>> THEN d
    ELSE SetAttr(SetAttr(d, "TriggerSelector", Head(sels)), "TriggerMode", "Off")

\* for selector in selectors: TriggerSelector = selector; TriggerMode = "Off"
RECURSIVE ResetSelectors(_, _)
ResetSelectors(d, sels) ==
    IF sels = <<>> THEN d
    ELSE ResetSelectors(
             SetAttr(SetAttr(d, "TriggerSelector", Head(sels)), "TriggerMode", "Off"),
             Tail(sels))

ChooseSelector_First(selectors) == selectors[1]

ChooseSelector(selectors) ==
    IF Contains(selectors, "FrameStart") THEN "FrameStart" ELSE selectors[1]

ArmSelector_ThenReset(d, source, activation) ==
    LET d1 == SetAttr(d, "TriggerSelector", ChooseSelector(d.selectors))
        d2 == SetAttr(d1, "TriggerMode", "On")
        d3 == SetAttr(d2, "TriggerSource", source)
        d4 == IF source # "Software"
              THEN SetAttr(d3, "TriggerActivation", activation) ELSE d3
    IN  SetAttr(d4, "TriggerMode", "Off")

ArmSelector(d, source, activation) ==
    IF d.exc # "none" THEN d
    ELSE IF d.selectors = <<>> THEN [d EXCEPT !.exc = "IndexError"]
    ELSE LET d1 == SetAttr(d, "TriggerSelector", ChooseSelector(d.selectors))
             d2 == SetAttr(d1, "TriggerMode", "On")
             d3 == SetAttr(d2, "TriggerSource", source)
         IN  IF source # "Software"
             THEN SetAttr(d3, "TriggerActivation", activation) ELSE d3

set_trigger(d, source, activation) ==
    LET src == TRIGGER_SOURCE_MAP[Lower(source)]
        d1  == ResetSelectors(d, d.selectors)
        d2  == IF src # "Off" THEN ArmSelector(d1, src, activation) ELSE d1
    IN  SetAttr(d2, "AcquisitionMode", "Continuous")

(* ------------------------------------------------------------ Configuration *)
\* the class attributes of Configuration
Configuration ==
    [ packet_size |-> 1500, inter_packet_delay |-> 0, frame_transmission_delay |-> 0,
      output_queue_size |-> 5, trigger_source |-> "internal" ]

\* log.debug / log.exception of the camera's logger
Logged(d, msg) == [d EXCEPT !.msgs = Append(@, msg)]

NetworkParameters_Ungated(cfg, d) ==
    SetAttr(SetAttr(SetAttr(d, "GevSCPSPacketSize", cfg.packet_size),
                    "GevSCPD", cfg.inter_packet_delay),
            "GevSCFTD", cfg.frame_transmission_delay)

\* if camera.IsGigE(): the three stream parameters
NetworkParameters(cfg, d) ==
    IF d.gige
    THEN SetAttr(SetAttr(SetAttr(d, "GevSCPSPacketSize", cfg.packet_size),
                         "GevSCPD", cfg.inter_packet_delay),
                 "GevSCFTD", cfg.frame_transmission_delay)
    ELSE d

ConfigureTrigger_NoAccessTest(cfg, d) ==
    IF d.exc # "none" THEN d
    ELSE set_trigger(d, cfg.trigger_source, "RisingEdge")

\* writable = TriggerSelector.GetAccessMode() in {WO, RW}; if writable: set_trigger
ConfigureTrigger(cfg, d) ==
    IF d.exc # "none" THEN d
    ELSE IF d.access \in {"WO", "RW"}
         THEN set_trigger(d, cfg.trigger_source, "RisingEdge")
         ELSE d

apply_config(cfg, d) ==
    LET d0 == Logged(d, "OnOpened: Preparing network parameters")
        d1 == NetworkParameters(cfg, d0)
        d2 == ConfigureTrigger(cfg, d1)
        d3 == SetAttr(d2, "OutputQueueSize", cfg.output_queue_size)
    IN  IF d3.exc = "none" THEN Logged(d3, "OnOpened: Finished configuration")
        ELSE d3

\* try: apply_config; except Exception: log.exception("OnOpened error")
OnOpened(cfg, d) ==
    LET r == apply_config(cfg, d)
    IN  IF r.exc # "none" THEN Logged([r EXCEPT !.exc = "none"], "OnOpened error")
        ELSE r

(* ------------------------------------------------------------------ inputs *)
ExposureNodeSets ==
    { {"ExposureTime"},
      {"ExposureTime", "ExposureTimeAbs", "ExposureTimeBaseAbs", "ExposureTimeRaw"},
      {"ExposureTimeAbs", "ExposureTimeBaseAbs", "ExposureTimeRaw"},
      {"ExposureTimeBaseAbs", "ExposureTimeRaw"},
      {} }

BinningNodeSets == { {}, {"BinningHorizontal", "BinningVertical"} }

\* <<exposure, latency>> in microseconds
Timings == { <<0, 0>>, <<75, 1>>, <<100000, 50000>>, <<50000001, 0>> }

Binnings == { <<1, 1>>, <<2, 1>> }

\* <<OffsetX, OffsetY, Width, Height>> the device can hold
Geometries ==
    { g \in (0..MaxW) \X (0..MaxH) \X (1..MaxW) \X (1..MaxH) :
        g[1] + g[3] <= MaxW /\ g[2] + g[4] <= MaxH }

\* the ROIs a caller can ask for, fitting or not
Rois == {None} \cup ((0..(MaxW - 1)) \X (0..(MaxH - 1)) \X (1..MaxW) \X (1..MaxH))

SelectorLists ==
    { <<"FrameStart">>,
      <<"AcquisitionStart", "FrameStart">>,
      <<"FrameStart", "LineStart">>,
      <<"AcquisitionStart", "LineStart">>,
      <<"AcquisitionStart", "FrameStart", "LineStart">> }

Range(seq) == { seq[i] : i \in 1..Len(seq) }

TriggerSources == {"Internal", "internal", "software", "Software", "Line1"}

\* a device as the SDK hands it over, before any call of this program
Device(nodes, g, selectors, sel, modes) ==
    [ nodes |-> nodes,
      WidthMax |-> MaxW,
      HeightMax |-> MaxH,
      selectors |-> selectors,
      regs |-> [ ExposureTime |-> 0, ExposureTimeAbs |-> 0,
                 ExposureTimeBaseAbs |-> 0, ExposureTimeRaw |-> 0,
                 AcquisitionFrameRateEnable |-> FALSE,
                 AcquisitionFrameRateAbs |-> 0,
                 BinningHorizontal |-> 1, BinningVertical |-> 1,
                 OffsetX |-> g[1], OffsetY |-> g[2],
                 Width |-> g[3], Height |-> g[4],
                 PixelFormat |-> "Mono8",
                 TriggerSelector |-> sel,
                 AcquisitionMode |-> "SingleFrame",
                 GevSCPSPacketSize |-> 0, GevSCPD |-> 0, GevSCFTD |-> 0,
                 OutputQueueSize |-> 0 ],
      gige |-> TRUE,
      access |-> "RW",
      rejects |-> {},
      msgs |-> <<>>,
      trig |-> [ s \in Range(selectors) |->
                   [ TriggerMode |-> modes[s], TriggerSource |-> "Line1",
                     TriggerActivation |-> "RisingEdge" ] ],
      log |-> <<>>,
      exc |-> "none" ]

\* Acquisition.__init__
Acquisition(nb_frames, exposure, latency, roi, binning, trigger) ==
    [ nb_frames |-> nb_frames, exposure |-> exposure, latency |-> latency,
      period |-> exposure + latency, roi |-> roi, binning |-> binning,
      pixel_format |-> "Mono8", trigger |-> trigger, prepared |-> FALSE ]

AllOff(selectors) == [ s \in Range(selectors) |-> "Off" ]

AllOn(selectors) == [ s \in Range(selectors) |-> "On" ]

\* what TriggerSelector.GetAccessMode() can answer
AccessModes == {"RW", "WO", "RO", "NA"}

\* the registers a device refuses to have written
RejectSets == { {}, {"GevSCPSPacketSize"}, {"GevSCFTD"}, {"OutputQueueSize"} }

\* the plans and devices prepare is called with: every geometry and ROI on two
\* devices, and every exposure scheme, timing and binning on a full-frame device
PrepareCases ==
    { [nodes |-> n \cup b, start |-> g, roi |-> r, timing |-> <<100000, 0>>,
       binning |-> <<1, 1>>] :
        n \in { {"ExposureTime"} }, b \in BinningNodeSets,
        g \in Geometries, r \in Rois }
    \cup
    { [nodes |-> n \cup b, start |-> <<0, 0, MaxW, MaxH>>, roi |-> r, timing |-> t,
       binning |-> bin] :
        n \in ExposureNodeSets, b \in BinningNodeSets,
        r \in {None, <<1, 0, 1, 1>>}, t \in Timings, bin \in Binnings }

\* no sequencer runs: the camera is open and nothing grabs
\* the parts of the program the other specifications are about do not run
AuxIdle ==
    /\ workers = <<>>
    /\ cams = <<>>
    /\ main = [pc |-> "idle"]
    /\ cmd = [pc |-> "idle"]
    /\ lima = [pc |-> "idle"]

SequencerIdle ==
    /\ AuxIdle
    /\ config = Configuration
    /\ cam = [open |-> TRUE, grabbing |-> FALSE, bounded |-> FALSE, left |-> 0]
    /\ fe = "none"
    /\ th = [pc |-> "idle", exc |-> "none", frame_nb |-> 0]
    /\ ui = [main |-> "idle", prepared_event |-> FALSE, start_trigger |-> FALSE,
             task |-> FALSE]
    /\ hist = [started |-> FALSE, stops |-> 0, unreleased |-> 0, outcomes |-> <<>>,
               after_stop |-> 0, timeouts |-> 0, failed |-> 0, pulses |-> 0,
               retrieves |-> 0, requests |-> 0, sdk |-> <<>>, joining |-> 0]

(* --------------------------------------------------- prepare: specification *)
PrepareInit ==
    \E c \in PrepareCases :
        /\ dev = Device(c.nodes, c.start, <<"FrameStart">>, "FrameStart",
                        AllOff(<<"FrameStart">>))
        /\ acq = Acquisition(1, c.timing[1], c.timing[2], c.roi, c.binning, "internal")
        /\ calls = <<>>
        /\ SequencerIdle

\* one call of acq.prepare(); an exception it raises ends the call
Prepare ==
    /\ Len(calls) < MaxCalls
    /\ LET r == AcquisitionPrepare(acq, [dev EXCEPT !.log = <<>>, !.exc = "none"])
       IN  /\ acq' = r.acq
           /\ dev' = r.dev
           /\ calls' = Append(calls, [op |-> "prepare", prepared |-> acq.prepared,
                                      n |-> Len(r.dev.log), exc |-> r.dev.exc])
    /\ UNCHANGED seqVars

PrepareNext == Prepare

SpecPrepare == PrepareInit /\ [][PrepareNext]_vars

(* ----------------------------------------------- set_trigger: specification *)
TriggerInit ==
    \E selectors \in SelectorLists :
        \E sel \in Range(selectors), modes \in [Range(selectors) -> {"Off", "On"}] :
            /\ dev = Device({"ExposureTime"}, <<0, 0, MaxW, MaxH>>, selectors, sel, modes)
            /\ acq = Acquisition(1, 100000, 0, None, <<1, 1>>, "internal")
            /\ calls = <<>>
            /\ SequencerIdle

SetTrigger(source) ==
    /\ Len(calls) < MaxTrigCalls
    /\ dev' = set_trigger([dev EXCEPT !.log = <<>>, !.exc = "none"], source, "RisingEdge")
    /\ calls' = Append(calls, [op |-> "set_trigger", source |-> source])
    /\ UNCHANGED <<acq, seqVars>>

TriggerNext == \E source \in TriggerSources : SetTrigger(source)

SpecTrigger == TriggerInit /\ [][TriggerNext]_vars

(* ============================================================== sequencer *)
FrontEnds == {"cli", "cli_multi", "gui_app", "gui_main"}
IsCli == fe \in {"cli", "cli_multi"}
IsGui == fe \in {"gui_app", "gui_main"}

\* what the SDK can answer to one __next__: a grabbed frame, a failed grab,
\* no frame within wait_ms, no trigger readiness within 100 ms
Outcomes == {"ok", "failed", "timeout", "trigger_timeout"}

(* ---- the SDK's grab engine, as the calls of this program use it: a grab
   started with StartGrabbingMax(n) ends by itself with the n-th retrieved
   result, successful or failed; StartGrabbing runs until StopGrabbing or
   Close ---- *)
StartGrabbingMax(c, n) == [c EXCEPT !.grabbing = TRUE, !.bounded = TRUE, !.left = n]

StartGrabbing(c) == [c EXCEPT !.grabbing = TRUE, !.bounded = FALSE, !.left = 0]

StopGrabbing(c) == [c EXCEPT !.grabbing = FALSE]

Close(c) == [c EXCEPT !.open = FALSE, !.grabbing = FALSE]

\* one retrieved result counts against StartGrabbingMax; the grab ends with the last
Retrieved(c) ==
    IF c.bounded
    THEN [c EXCEPT !.left = @ - 1, !.grabbing = (c.left - 1 > 0)]
    ELSE c

\* Acquisition.start
AcquisitionStart(a, c) ==
    IF a.nb_frames # 0 THEN StartGrabbingMax(c, a.nb_frames) ELSE StartGrabbing(c)

\* wait_ms = int((self.period + 1) * 1000), the period held in microseconds
WaitMs_Ceil(period) ==
    CeilDiv(period + MicroPerSecond, MicroPerSecond \div MilliPerSecond)

WaitMs(period) == (period + MicroPerSecond) \div (MicroPerSecond \div MilliPerSecond)

\* the SDK calls of one __next__ past its IsGrabbing test, each with its
\* argument and with what the device reports when the call is made
TriggerCalls_Always(a, c) ==
    << <<"WaitForFrameTriggerReady", TriggerReadyMs, c.grabbing>>,
       <<"ExecuteSoftwareTrigger", 0, c.grabbing>> >>

TriggerCalls(a, c) ==
    IF a.trigger = "software"
    THEN << <<"WaitForFrameTriggerReady", TriggerReadyMs, c.grabbing>>,
            <<"ExecuteSoftwareTrigger", 0, c.grabbing>> >>
    ELSE <<>>

RetrieveCall(a, c) == << <<"RetrieveResult", WaitMs(a.period), c.grabbing>> >>

\* Acquisition.__next__ after its IsGrabbing test, for one answer o of the SDK.
\* When the grab was stopped since that test, RetrieveResult returns an empty
\* result.  Whether a raised timeout leaves the grab engine running is the
\* SDK's choice (sdk_stops); no call of this program stops it.
AcquisitionNext_RaiseOnFailed(a, c, o, sdk_stops) ==
    IF a.trigger = "software" /\ o = "trigger_timeout"
    THEN [cam |-> c, result |-> "none", exc |-> "TimeoutException", pulses |-> 0,
          sdk |-> SubSeq(TriggerCalls(a, c), 1, 1)]
    ELSE LET p == IF a.trigger = "software" THEN 1 ELSE 0
             k == TriggerCalls(a, c) \o RetrieveCall(a, c)
         IN  IF ~c.grabbing
             THEN [cam |-> c, result |-> "empty", exc |-> "none", pulses |-> p,
                   sdk |-> k]
             ELSE IF o \in {"timeout", "failed"}
             THEN [cam |-> IF sdk_stops THEN StopGrabbing(c) ELSE c,
                   result |-> "none", exc |-> "TimeoutException", pulses |-> p,
                   sdk |-> k]
             ELSE [cam |-> Retrieved(c), result |-> o, exc |-> "none", pulses |-> p,
                   sdk |-> k]

AcquisitionNext(a, c, o, sdk_stops) ==
    IF a.trigger = "software" /\ o = "trigger_timeout"
    THEN [cam |-> c, result |-> "none", exc |-> "TimeoutException", pulses |-> 0,
          sdk |-> SubSeq(TriggerCalls(a, c), 1, 1)]
    ELSE LET p == IF a.trigger = "software" THEN 1 ELSE 0
             k == TriggerCalls(a, c) \o RetrieveCall(a, c)
         IN  IF ~c.grabbing
             THEN [cam |-> c, result |-> "empty", exc |-> "none", pulses |-> p,
                   sdk |-> k]
             ELSE IF o = "timeout"
             THEN [cam |-> IF sdk_stops THEN StopGrabbing(c) ELSE c,
                   result |-> "none", exc |-> "TimeoutException", pulses |-> p,
                   sdk |-> k]
             ELSE [cam |-> Retrieved(c), result |-> o, exc |-> "none", pulses |-> p,
                   sdk |-> k]

\* what the front end's loop body does with the results it holds
AfterLoopBody(frontend, unreleased) ==
    IF frontend = "gui_main" THEN unreleased ELSE unreleased - 1

Raised_Continue(e) == [th EXCEPT !.pc = "start", !.exc = e]

\* where an exception raised in the acquisition thread takes it: the CLI leaves
\* its with block (the camera is closed), the GUI loops log it and end
Raised(e) ==
    [th EXCEPT !.pc = IF IsCli THEN "exit" ELSE "done", !.exc = e]

\* <<exposure, latency>> in microseconds of the plans the sequencer runs
SequencerTimings == { <<100000, 0>>, <<100000, 50000>>, <<75, 1>> }

\* the ROIs of those plans: the full frame, one past the right edge of the
\* sensor, one past its bottom edge
SequencerRois == { None, <<1, 0, MaxW, 1>>, <<0, 1, 1, MaxH>> }

(* ---- initial state: a front end, a plan, a device ---- *)
Init ==
    /\ AuxIdle
    /\ fe \in FrontEnds
    /\ \E n \in 0..MaxFrames, roi \in SequencerRois,
          trigger \in {"internal", "software"}, t \in SequencerTimings :
          /\ IsGui => trigger = "internal"
          /\ acq = Acquisition(n, t[1], t[2], roi, <<1, 1>>, trigger)
    /\ config = [Configuration EXCEPT
                    !.trigger_source = IF fe = "cli" THEN acq.trigger ELSE @]
    /\ LET d == Device({"ExposureTime"}, <<0, 0, MaxW, MaxH>>, <<"FrameStart">>,
                       "FrameStart", AllOff(<<"FrameStart">>))
       IN  dev = IF IsGui THEN [OnOpened(config, d) EXCEPT !.log = <<>>] ELSE d
    /\ calls = <<>>
    /\ cam = [open |-> IsGui, grabbing |-> FALSE, bounded |-> FALSE, left |-> 0]
    /\ th = [pc |-> IF IsGui THEN "idle" ELSE "open", exc |-> "none", frame_nb |-> 0]
    /\ ui = [main |-> "idle", prepared_event |-> FALSE, start_trigger |-> FALSE,
             task |-> FALSE]
    /\ hist = [started |-> FALSE, stops |-> 0, unreleased |-> 0, outcomes |-> <<>>,
               after_stop |-> 0, timeouts |-> 0, failed |-> 0, pulses |-> 0,
               retrieves |-> 0, requests |-> 0, sdk |-> <<>>, joining |-> 0]

(* ---- the acquisition thread ---- *)
\* icam.Open(): the SDK opens the device and runs the registered handler's
\* OnOpened
OpenCamera ==
    /\ cam' = [cam EXCEPT !.open = TRUE]
    /\ dev' = OnOpened(config, [dev EXCEPT !.log = <<>>, !.exc = "none", !.msgs = <<>>])
    /\ calls' = Append(calls, [op |-> "open", prepared |-> acq.prepared,
                               n |-> Len(dev'.log), exc |-> dev'.exc])

\* with camera: Camera.__enter__
Open ==
    /\ IsCli /\ th.pc = "open"
    /\ OpenCamera
    /\ th' = [th EXCEPT !.pc = "prepare"]
    /\ UNCHANGED <<auxVars, config, acq, fe, ui, hist>>

\* acq.prepare(): by with acq (Acquisition.__enter__), and first by _acq_loop
ThreadPrepare ==
    /\ th.pc \in {"prepare", "enter"}
    /\ LET r == AcquisitionPrepare(acq, [dev EXCEPT !.log = <<>>, !.exc = "none"])
           first == fe = "gui_app" /\ th.pc = "prepare"
       IN  /\ acq' = r.acq
           /\ dev' = r.dev
           /\ calls' = Append(calls, [op |-> "prepare", prepared |-> acq.prepared,
                                      n |-> Len(r.dev.log), exc |-> r.dev.exc])
           /\ IF r.dev.exc = "none"
              THEN /\ th' = [th EXCEPT !.pc = IF first THEN "wait_start" ELSE "start"]
                   /\ ui' = IF first THEN [ui EXCEPT !.prepared_event = TRUE] ELSE ui
              ELSE /\ th' = Raised(r.dev.exc)
                   /\ ui' = ui
    /\ UNCHANGED <<auxVars, config, cam, fe, hist>>

\* start_trigger.wait()
WaitStart ==
    /\ fe = "gui_app" /\ th.pc = "wait_start" /\ ui.start_trigger
    /\ th' = [th EXCEPT !.pc = "enter"]
    /\ UNCHANGED <<auxVars, config, dev, acq, calls, cam, fe, ui, hist>>

\* acq.start()
ThreadStart ==
    /\ th.pc = "start"
    /\ cam' = AcquisitionStart(acq, cam)
    /\ hist' = [hist EXCEPT !.started = TRUE]
    /\ th' = [th EXCEPT !.pc = "next"]
    /\ UNCHANGED <<auxVars, config, dev, acq, calls, fe, ui>>

\* the loop test of the front end, then __next__'s IsGrabbing test
NextCheck ==
    /\ th.pc = "next"
    /\ IF fe = "cli" /\ ~(th.frame_nb < acq.nb_frames \/ acq.nb_frames = 0)
       THEN th' = [th EXCEPT !.pc = "exit"]
       ELSE IF ~cam.grabbing
       THEN th' = [th EXCEPT !.pc = IF IsCli THEN "exit" ELSE "done",
                             !.exc = IF fe = "cli" THEN "StopIteration" ELSE @]
       ELSE /\ hist.retrieves <= MaxFrames
            /\ th' = [th EXCEPT !.pc = "retrieve"]
    /\ UNCHANGED <<auxVars, config, dev, acq, calls, cam, fe, ui, hist>>

\* the rest of __next__: trigger when software, then RetrieveResult
Retrieve ==
    /\ th.pc = "retrieve"
    /\ \E o \in Outcomes, sdk_stops \in BOOLEAN :
         LET r == AcquisitionNext(acq, cam, o, sdk_stops)
         IN  /\ o = "trigger_timeout" => acq.trigger = "software"
             /\ cam' = r.cam
             /\ hist' = [hist EXCEPT
                   !.retrieves = @ + 1,
                   !.sdk = @ \o r.sdk,
                   !.joining = @ + (IF ui.main = "joining" THEN 1 ELSE 0),
                   !.pulses = @ + r.pulses,
                   !.timeouts = @ + (IF cam.grabbing /\ o = "timeout" THEN 1 ELSE 0),
                   !.failed = @ + (IF cam.grabbing /\ o = "failed" THEN 1 ELSE 0),
                   !.outcomes = IF r.exc = "none" THEN Append(@, r.result) ELSE @,
                   !.unreleased = @ + (IF r.exc = "none" THEN 1 ELSE 0),
                   !.after_stop = @ + (IF r.exc = "none" /\ hist.stops > 0 THEN 1 ELSE 0)]
             /\ th' = IF r.exc = "none" THEN [th EXCEPT !.pc = "release"]
                      ELSE Raised(r.exc)
    /\ UNCHANGED <<auxVars, config, dev, acq, calls, fe, ui>>

\* the loop body: result.Release() (CLI), emit then frame.Release() (iter_frames),
\* emit only (gui/main.py)
LoopBody ==
    /\ th.pc = "release"
    /\ hist' = [hist EXCEPT !.unreleased = AfterLoopBody(fe, @)]
    /\ th' = [th EXCEPT !.pc = "next", !.frame_nb = @ + 1]
    /\ UNCHANGED <<auxVars, config, dev, acq, calls, cam, fe, ui>>

\* leaving with camera: Camera.__exit__
Exit ==
    /\ IsCli /\ th.pc = "exit"
    /\ cam' = Close(cam)
    /\ th' = [th EXCEPT !.pc = "done"]
    /\ UNCHANGED <<auxVars, config, dev, acq, calls, fe, ui, hist>>

\* Ctrl-C while the CLI loop runs
KeyboardInterrupt ==
    /\ fe = "cli" /\ th.pc \in {"next", "retrieve", "release"}
    /\ th' = Raised("KeyboardInterrupt")
    /\ hist' = [hist EXCEPT !.requests = @ + 1]
    /\ UNCHANGED <<auxVars, config, dev, acq, calls, cam, fe, ui>>

(* ---- the GUI main thread ---- *)
\* on_start: the thread is created and started; app.py then waits for prepared_event
OnStart ==
    /\ IsGui /\ th.pc = "idle" /\ ui.main = "idle"
    /\ th' = [th EXCEPT !.pc = "prepare"]
    /\ ui' = [ui EXCEPT !.task = TRUE,
                        !.main = IF fe = "gui_app" THEN "wait_prepared" ELSE "idle"]
    /\ UNCHANGED <<auxVars, config, dev, acq, calls, cam, fe, hist>>

\* on_start: prepared_event.wait() returns, start_trigger.set()
OnStartRelease ==
    /\ fe = "gui_app" /\ ui.main = "wait_prepared" /\ ui.prepared_event
    /\ ui' = [ui EXCEPT !.start_trigger = TRUE, !.main = "idle"]
    /\ UNCHANGED <<auxVars, config, dev, acq, calls, cam, fe, th, hist>>

\* on_stop: camera.StopGrabbing(), then task.join() if there is a task
OnStop ==
    /\ IsGui /\ ui.main = "idle" /\ hist.stops < MaxStops
    /\ cam' = StopGrabbing(cam)
    /\ hist' = [hist EXCEPT !.stops = @ + 1, !.requests = @ + 1]
    /\ ui' = [ui EXCEPT !.main = IF ui.task THEN "joining" ELSE "idle"]
    /\ UNCHANGED <<auxVars, config, dev, acq, calls, fe, th>>

\* on_stop: task.join() returns; app.py then clears self.task
OnStopJoined ==
    /\ IsGui /\ ui.main = "joining" /\ th.pc = "done"
    /\ ui' = [ui EXCEPT !.main = "idle", !.task = IF fe = "gui_app" THEN FALSE ELSE @]
    /\ UNCHANGED <<auxVars, config, dev, acq, calls, cam, fe, th, hist>>

Next ==
    \/ Open
    \/ ThreadPrepare
    \/ WaitStart
    \/ ThreadStart
    \/ NextCheck
    \/ Retrieve
    \/ LoopBody
    \/ Exit
    \/ KeyboardInterrupt
    \/ OnStart
    \/ OnStartRelease
    \/ OnStop
    \/ OnStopJoined

Spec == Init /\ [][Next]_vars

(* --------------------------------------------- configuration: specification *)
\* a camera handle with its registered Configuration, not opened yet: any
\* transport, any access mode of TriggerSelector, trigger modes left behind by
\* an earlier session
ConfigInit ==
    /\ \E gige \in BOOLEAN, access \in AccessModes, rejects \in RejectSets,
          source \in {"internal", "software"},
          selectors \in { <<"FrameStart">>, <<"AcquisitionStart", "FrameStart">> },
          on \in BOOLEAN :
          /\ config = [Configuration EXCEPT !.trigger_source = source]
          /\ dev = [Device({"ExposureTime"}, <<0, 0, MaxW, MaxH>>, selectors,
                           selectors[1],
                           IF on THEN AllOn(selectors) ELSE AllOff(selectors))
                      EXCEPT !.gige = gige, !.access = access, !.rejects = rejects]
          /\ acq = Acquisition(1, 100000, 50000, None, <<1, 1>>, source)
    /\ calls = <<>>
    /\ AuxIdle
    /\ cam = [open |-> FALSE, grabbing |-> FALSE, bounded |-> FALSE, left |-> 0]
    /\ fe = "none"
    /\ th = [pc |-> "idle", exc |-> "none", frame_nb |-> 0]
    /\ ui = [main |-> "idle", prepared_event |-> FALSE, start_trigger |-> FALSE,
             task |-> FALSE]
    /\ hist = [started |-> FALSE, stops |-> 0, unreleased |-> 0, outcomes |-> <<>>,
               after_stop |-> 0, timeouts |-> 0, failed |-> 0, pulses |-> 0,
               retrieves |-> 0, requests |-> 0, sdk |-> <<>>, joining |-> 0]

\* Camera.__enter__ on a closed handle
ConfigOpen ==
    /\ fe = "none" /\ ~cam.open
    /\ Len(calls) < MaxCalls
    /\ OpenCamera
    /\ UNCHANGED <<auxVars, config, acq, fe, th, ui, hist>>

\* acq.prepare() on the open handle
ConfigPrepare ==
    /\ fe = "none" /\ cam.open
    /\ Prepare

\* Camera.__exit__
ConfigClose ==
    /\ fe = "none" /\ cam.open
    /\ Len(calls) < MaxCalls
    /\ cam' = Close(cam)
    /\ UNCHANGED <<auxVars, config, dev, acq, calls, fe, th, ui, hist>>

ConfigNext ==
    \/ ConfigOpen
    \/ ConfigPrepare
    \/ ConfigClose

SpecConfig == ConfigInit /\ [][ConfigNext]_vars

(* ============================================================ param write *)
\* a closed camera on a full-frame device, no acquisition under way
CameraIdle ==
    /\ config = Configuration
    /\ dev = Device({"ExposureTime"}, <<0, 0, MaxW, MaxH>>, <<"FrameStart">>,
                    "FrameStart", AllOff(<<"FrameStart">>))
    /\ acq = Acquisition(1, 100000, 0, None, <<1, 1>>, "internal")
    /\ calls = <<>>
    /\ cam = [open |-> FALSE, grabbing |-> FALSE, bounded |-> FALSE, left |-> 0]
    /\ fe = "none"
    /\ th = [pc |-> "idle", exc |-> "none", frame_nb |-> 0]
    /\ ui = [main |-> "idle", prepared_event |-> FALSE, start_trigger |-> FALSE,
             task |-> FALSE]
    /\ hist = [started |-> FALSE, stops |-> 0, unreleased |-> 0, outcomes |-> <<>>,
               after_stop |-> 0, timeouts |-> 0, failed |-> 0, pulses |-> 0,
               retrieves |-> 0, requests |-> 0, sdk |-> <<>>, joining |-> 0]

\* the GenICam interface of the parameters of the camera the command can name
ParamTypes ==
    [ Width |-> "IInteger", Height |-> "IInteger", ExposureTime |-> "IFloat",
      AcquisitionFrameRateEnable |-> "IBoolean", PixelFormat |-> "IEnumeration" ]

\* str.lower() on the spellings of the arguments
LowerCase(n) ==
    CASE n \in {"Width", "WIDTH"} -> "width"
      [] n = "Height" -> "height"
      [] n = "ExposureTime" -> "exposuretime"
      [] n = "AcquisitionFrameRateEnable" -> "acquisitionframerateenable"
      [] n = "PixelFormat" -> "pixelformat"
      [] OTHER -> n

\* all_pars = {n.lower(): n for n in dir(cam)}
all_pars ==
    [ l \in { LowerCase(n) : n \in DOMAIN ParamTypes } |->
        CHOOSE n \in DOMAIN ParamTypes : LowerCase(n) = l ]

\* params[::2] and params[1::2]
EveryOther(seq, first) ==
    [ k \in 1..((Len(seq) - first + 2) \div 2) |-> seq[first + 2 * (k - 1)] ]

\* names = [all_pars[n.lower()] for n in names]; KeyError on the first unknown
ResolveNames(names) ==
    IF \A k \in 1..Len(names) : LowerCase(names[k]) \in DOMAIN all_pars
    THEN [ok |-> TRUE, names |-> [ k \in 1..Len(names) |-> all_pars[LowerCase(names[k])] ]]
    ELSE [ok |-> FALSE, names |-> names]

\* int(text) and float(text) on the texts of the arguments; floats are held
\* as the integers they equal
IsNumeral(text) == text \in {"0", "1", "2", "9"}

NumberOf(text) ==
    CASE text = "0" -> 0 [] text = "1" -> 1 [] text = "2" -> 2 [] text = "9" -> 9

\* parameter_encode: the converter by interface; no converter is bound for an
\* enumeration, and the call raises
parameter_encode(type, value) ==
    CASE type \in {"IInteger", "IFloat"} ->
           IF IsNumeral(value) THEN [ok |-> TRUE, value |-> NumberOf(value)]
           ELSE [ok |-> FALSE, value |-> 0]
      [] type = "IBoolean" ->
           [ok |-> TRUE, value |-> value \notin {"false", "False"}]
      [] OTHER -> [ok |-> FALSE, value |-> 0]

EncodeAll_SkipBad(names, values) ==
    LET n == IF Len(names) < Len(values) THEN Len(names) ELSE Len(values)
        good == { k \in 1..n : parameter_encode(ParamTypes[names[k]], values[k]).ok }
    IN  [ok |-> TRUE,
         pars |-> IF good = {} THEN <<>>
                  ELSE LET k == CHOOSE x \in good : \A y \in good : x <= y
                       IN  << <<names[k],
                                parameter_encode(ParamTypes[names[k]], values[k]).value>> >>]

\* for name, value in zip(names, values): encode, exit on the first failure
EncodeAll(names, values) ==
    LET n == IF Len(names) < Len(values) THEN Len(names) ELSE Len(values)
    IN  IF \A k \in 1..n : parameter_encode(ParamTypes[names[k]], values[k]).ok
        THEN [ok |-> TRUE,
              pars |-> [ k \in 1..n |->
                          <<names[k],
                            parameter_encode(ParamTypes[names[k]], values[k]).value>> ]]
        ELSE [ok |-> FALSE, pars |-> <<>>]

\* the names and values a command line can hold
ArgNames == {"width", "Height", "acquisitionframerateenable", "pixelformat", "bogus"}

ArgValues == {"2", "9", "x", "false"}

RECURSIVE ArgLists(_)
ArgLists(n) ==
    IF n = 0 THEN { <<>> }
    ELSE LET shorter == ArgLists(n - 1)
         IN  shorter \cup
             { l \o <<a, v>> : l \in { x \in shorter : Len(x) = 2 * (n - 1) },
                                a \in ArgNames, v \in ArgValues }

ParamInit ==
    /\ \E l \in ArgLists(MaxParams), last \in { <<>>, <<"width">>, <<"bogus">> } :
          cmd = [pc |-> "resolve", params |-> l \o last, names |-> <<>>,
                 pars |-> <<>>, i |-> 1, exit |-> 0]
    /\ CameraIdle
    /\ workers = <<>> /\ cams = <<>>
    /\ main = [pc |-> "idle"] /\ lima = [pc |-> "idle"]

\* names, values = params[::2], params[1::2]; resolve the names or exit(1)
ParamResolve ==
    /\ cmd.pc = "resolve"
    /\ LET r == ResolveNames(EveryOther(cmd.params, 1))
       IN  cmd' = IF r.ok THEN [cmd EXCEPT !.pc = "encode", !.names = r.names]
                  ELSE [cmd EXCEPT !.pc = "done", !.exit = 1]
    /\ UNCHANGED <<config, dev, acq, calls, cam, fe, th, ui, hist,
                   workers, cams, main, lima>>

\* encode every value or exit(3)
ParamEncode ==
    /\ cmd.pc = "encode"
    /\ LET r == EncodeAll(cmd.names, EveryOther(cmd.params, 2))
       IN  cmd' = IF r.ok THEN [cmd EXCEPT !.pc = "open", !.pars = r.pars]
                  ELSE [cmd EXCEPT !.pc = "done", !.exit = 3]
    /\ UNCHANGED <<config, dev, acq, calls, cam, fe, th, ui, hist,
                   workers, cams, main, lima>>

\* with cam:
ParamOpen ==
    /\ cmd.pc = "open"
    /\ OpenCamera
    /\ cmd' = [cmd EXCEPT !.pc = IF cmd.pars = <<>> THEN "close" ELSE "write"]
    /\ UNCHANGED <<config, acq, fe, th, ui, hist, workers, cams, main, lima>>

\* param.SetValue(value); an exception of the write is printed and the loop
\* goes on
ParamWrite ==
    /\ cmd.pc = "write"
    /\ LET par == cmd.pars[cmd.i]
       IN  dev' = [SetAttr(dev, par[1], par[2]) EXCEPT !.exc = "none"]
    /\ cmd' = [cmd EXCEPT !.i = @ + 1,
                          !.pc = IF cmd.i = Len(cmd.pars) THEN "close" ELSE "write"]
    /\ UNCHANGED <<config, acq, calls, cam, fe, th, ui, hist,
                   workers, cams, main, lima>>

\* leaving with cam: Camera.__exit__
ParamClose ==
    /\ cmd.pc = "close"
    /\ cam' = Close(cam)
    /\ cmd' = [cmd EXCEPT !.pc = "done"]
    /\ UNCHANGED <<config, dev, acq, calls, fe, th, ui, hist,
                   workers, cams, main, lima>>

ParamNext ==
    \/ ParamResolve
    \/ ParamEncode
    \/ ParamOpen
    \/ ParamWrite
    \/ ParamClose

SpecParam == ParamInit /\ [][ParamNext]_vars

(* ========================================================= Lima interface *)
\* Interface.__init__: status Ready, no thread, no acquisition
LimaInit ==
    /\ lima = [pc |-> "none", status |-> "Ready", acq |-> FALSE, nb |-> 0,
               nb_frames |-> 0, stopped |-> FALSE, raised |-> FALSE,
               caller |-> "idle", runs |-> 0]
    /\ CameraIdle
    /\ workers = <<>> /\ cams = <<>>
    /\ main = [pc |-> "idle"] /\ cmd = [pc |-> "idle"]

LimaOthers == <<config, dev, acq, calls, cam, fe, th, ui, hist, workers, cams, main, cmd>>

LimaThreadAlive == lima.pc \in {"enter", "iter", "body", "ready", "finally"}

\* prepareAcq: a new acquisition object, the frame counter reset, a new thread
\* that is not started yet
LimaPrepareAcq ==
    /\ lima.caller = "idle"
    /\ ~LimaThreadAlive
    /\ lima.runs < MaxRuns
    /\ \E n \in 0..MaxFrames :
         lima' = [lima EXCEPT !.pc = "created", !.acq = TRUE, !.nb = 0,
                              !.nb_frames = n, !.stopped = FALSE,
                              !.raised = FALSE, !.runs = @ + 1]
    /\ UNCHANGED LimaOthers

\* startAcq: self._acq_thread.start()
LimaStartAcq ==
    /\ lima.caller = "idle"
    /\ lima.pc = "created"
    /\ lima' = [lima EXCEPT !.pc = "enter"]
    /\ UNCHANGED LimaOthers

\* stopAcq: stop the acquisition, then join the thread; joining a thread that
\* was never started raises in the caller
LimaStopAcq ==
    /\ lima.caller = "idle"
    /\ lima' = [lima EXCEPT !.stopped = TRUE,
                            !.caller = IF lima.pc \in {"none", "created"}
                                       THEN "idle" ELSE "joining"]
    /\ UNCHANGED LimaOthers

LimaJoined ==
    /\ lima.caller = "joining"
    /\ lima.pc = "ended"
    /\ lima' = [lima EXCEPT !.caller = "idle"]
    /\ UNCHANGED LimaOthers

\* _acquisition_loop up to the for statement: self._status = Status.Exposure
LimaLoopEnter ==
    /\ lima.pc = "enter"
    /\ lima' = [lima EXCEPT !.pc = "iter", !.status = "Exposure"]
    /\ UNCHANGED LimaOthers

\* one step of the for statement over the acquisition: a frame, the end of
\* the iteration, or an exception of the retrieval
LimaIterate ==
    /\ lima.pc = "iter"
    /\ \/ /\ ~lima.stopped
          /\ lima.nb_frames = 0 \/ lima.nb < lima.nb_frames
          /\ lima' = [lima EXCEPT !.pc = "body", !.status = "Readout"]
       \/ /\ lima.stopped \/ (lima.nb_frames > 0 /\ lima.nb = lima.nb_frames)
          /\ lima' = [lima EXCEPT !.pc = "ready"]
       \/ /\ ~lima.stopped
          /\ lima' = [lima EXCEPT !.pc = "finally", !.raised = TRUE]
    /\ UNCHANGED LimaOthers

\* the body of the loop: copy the frame, frame_infos[frame_nb] (IndexError
\* when the list of nb_frames entries is too short), count, status Exposure
LimaStore ==
    /\ lima.pc = "body"
    /\ lima' = IF lima.nb >= lima.nb_frames
               THEN [lima EXCEPT !.pc = "finally", !.raised = TRUE]
               ELSE [lima EXCEPT !.pc = "iter", !.nb = @ + 1, !.status = "Exposure"]
    /\ UNCHANGED LimaOthers

\* after the loop: self._status = Status.Ready
LimaLoopEnd ==
    /\ lima.pc = "ready"
    /\ lima' = [lima EXCEPT !.pc = "finally", !.status = "Ready"]
    /\ UNCHANGED LimaOthers

\* _acquire: except BaseException prints, finally clears self._acq
LimaFinally ==
    /\ lima.pc = "finally"
    /\ lima' = [lima EXCEPT !.pc = "ended", !.acq = FALSE]
    /\ UNCHANGED LimaOthers

LimaNext ==
    \/ LimaPrepareAcq
    \/ LimaStartAcq
    \/ LimaStopAcq
    \/ LimaJoined
    \/ LimaLoopEnter
    \/ LimaIterate
    \/ LimaStore
    \/ LimaLoopEnd
    \/ LimaFinally

SpecLima == LimaInit /\ [][LimaNext]_vars

(* ================================================== multi-camera acquire *)
\* a ROI past the sensor: its prepare raises
RoiPastSensor == <<0, 1, 1, MaxH>>

\* acquire [options] camera ... camera ...: n cameras with the group's frame
\* count and trigger, each closed, each with its Acquisition and no worker yet
MultiInit ==
    /\ \E n \in 1..MaxCams, nb \in 1..MaxFrames, trigger \in {"internal", "software"},
          bad \in 0..MaxCams :
          /\ bad <= n
          /\ cams = [ k \in 1..n |->
                        [open |-> FALSE, grabbing |-> FALSE, bounded |-> FALSE,
                         left |-> 0, callers |-> {}] ]
          /\ workers = [ k \in 1..n |->
                        [pc |-> "idle", exc |-> "none", nb |-> 0, clean |-> TRUE,
                         cam |-> k,
                         acq |-> Acquisition(nb, 100000, 0,
                                             IF k = bad THEN RoiPastSensor ELSE None,
                                             <<1, 1>>, trigger)] ]
    /\ main = [pc |-> "open", k |-> 1, exc |-> "none"]
    /\ CameraIdle
    /\ cmd = [pc |-> "idle"] /\ lima = [pc |-> "idle"]

MultiOthers == <<config, dev, acq, calls, cam, fe, th, ui, hist, cmd, lima>>

Handle(c) == [open |-> c.open, grabbing |-> c.grabbing, bounded |-> c.bounded,
              left |-> c.left]

WithHandle(c, h) == [c EXCEPT !.open = h.open, !.grabbing = h.grabbing,
                              !.bounded = h.bounded, !.left = h.left]

\* [stack.enter_context(camera) for camera in cameras]
MultiOpen ==
    /\ main.pc = "open"
    /\ cams' = [ k \in DOMAIN cams |-> [cams[k] EXCEPT !.open = TRUE] ]
    /\ main' = [main EXCEPT !.pc = "prepare"]
    /\ UNCHANGED <<workers, MultiOthers>>

\* [stack.enter_context(acq) for acq in acqs]: acq.prepare() in the main
\* thread, one acquisition per step; an exception unwinds the stack
MultiPrepare ==
    /\ main.pc = "prepare"
    /\ LET r == AcquisitionPrepare(workers[main.k].acq, dev)
       IN  /\ workers' = [workers EXCEPT ![main.k].acq = r.acq]
           /\ main' = IF r.dev.exc # "none"
                      THEN [main EXCEPT !.pc = "unwind", !.exc = r.dev.exc]
                      ELSE IF main.k = Len(workers)
                      THEN [main EXCEPT !.pc = "submit", !.k = 1]
                      ELSE [main EXCEPT !.k = @ + 1]
    /\ UNCHANGED <<cams, MultiOthers>>

\* pool.map(progress, bars): every call is submitted at once to a pool of
\* len(cameras) threads
MultiSubmit ==
    /\ main.pc = "submit"
    /\ workers' = [ k \in DOMAIN workers |-> [workers[k] EXCEPT !.pc = "start"] ]
    /\ main' = [main EXCEPT !.pc = "collect", !.k = 1]
    /\ UNCHANGED <<cams, MultiOthers>>

\* acq.start() on the camera of the worker's Acquisition; a closed camera and
\* a camera that is grabbing already refuse to start
WorkerStart(k) ==
    /\ workers[k].pc = "start"
    /\ LET c == workers[k].cam
       IN  IF cams[c].open /\ ~cams[c].grabbing
           THEN /\ cams' = [cams EXCEPT ![c] =
                              [WithHandle(@, AcquisitionStart(workers[k].acq, Handle(@)))
                                 EXCEPT !.callers = @ \cup {k}]]
                /\ workers' = [workers EXCEPT ![k].pc = "next"]
           ELSE /\ cams' = [cams EXCEPT ![c].callers = @ \cup {k}]
                /\ workers' = [workers EXCEPT ![k].pc = "done",
                                              ![k].exc = "RuntimeException"]
    /\ UNCHANGED <<main, MultiOthers>>

\* for result in ...: __next__ up to its IsGrabbing test
WorkerNext(k) ==
    /\ workers[k].pc = "next"
    /\ workers' = [workers EXCEPT ![k].pc = IF cams[workers[k].cam].grabbing
                                            THEN "retrieve" ELSE "done"]
    /\ cams' = [cams EXCEPT ![workers[k].cam].callers = @ \cup {k}]
    /\ UNCHANGED <<main, MultiOthers>>

\* __next__ past the test: trigger calls and RetrieveResult on the camera of
\* the worker's Acquisition
WorkerRetrieve(k) ==
    /\ workers[k].pc = "retrieve"
    /\ \E o \in Outcomes, sdk_stops \in BOOLEAN :
         LET w == workers[k]
             c == w.cam
             r == AcquisitionNext(w.acq, Handle(cams[c]), o, sdk_stops)
         IN  /\ o = "trigger_timeout" => w.acq.trigger = "software"
             /\ ~cams[c].grabbing => (o = "ok" /\ ~sdk_stops)
             /\ o # "timeout" => ~sdk_stops
             /\ cams' = [cams EXCEPT ![c] =
                           [WithHandle(@, r.cam) EXCEPT !.callers = @ \cup {k}]]
             /\ workers' = [workers EXCEPT
                   ![k].clean = @ /\ o = "ok",
                   ![k].nb = @ + (IF r.exc = "none" /\ r.result = "ok" THEN 1 ELSE 0),
                   ![k].exc = r.exc,
                   ![k].pc = IF r.exc = "none" THEN "release" ELSE "done"]
    /\ UNCHANGED <<main, MultiOthers>>

\* the loop body: result.Release() (emit only in gui/main.py)
WorkerRelease(k) ==
    /\ workers[k].pc = "release"
    /\ workers' = [workers EXCEPT ![k].pc = "next"]
    /\ cams' = [cams EXCEPT ![workers[k].cam].callers = @ \cup {k}]
    /\ UNCHANGED <<main, MultiOthers>>

\* for result in pool.map(...): the results are taken in the order of the
\* cameras; the exception of a worker is raised again in the main thread
MultiCollect ==
    /\ main.pc = "collect"
    /\ workers[main.k].pc = "done"
    /\ main' = IF workers[main.k].exc # "none"
               THEN [main EXCEPT !.pc = "unwind", !.exc = workers[main.k].exc]
               ELSE IF main.k = Len(workers)
               THEN [main EXCEPT !.pc = "unwind"]
               ELSE [main EXCEPT !.k = @ + 1]
    /\ UNCHANGED <<workers, cams, MultiOthers>>

\* leaving with ExitStack(): every camera entered is closed; a running
\* worker is not cancelled and not waited for
MultiUnwind ==
    /\ main.pc = "unwind"
    /\ cams' = [ k \in DOMAIN cams |-> WithHandle(cams[k], Close(Handle(cams[k]))) ]
    /\ main' = [main EXCEPT !.pc = "done"]
    /\ UNCHANGED <<workers, MultiOthers>>

MultiNext ==
    \/ MultiOpen
    \/ MultiPrepare
    \/ MultiSubmit
    \/ \E k \in DOMAIN workers : WorkerStart(k)
    \/ \E k \in DOMAIN workers : WorkerNext(k)
    \/ \E k \in DOMAIN workers : WorkerRetrieve(k)
    \/ \E k \in DOMAIN workers : WorkerRelease(k)
    \/ MultiCollect
    \/ MultiUnwind

SpecMulti == MultiInit /\ [][MultiNext]_vars

(* ============================================================ GUI restart *)
Guis == {"gui_app", "gui_main"}

\* the GUI is up: its camera is open, the form holds a frame count, no
\* acquisition thread exists
RestartInit ==
    /\ \E g \in Guis, nb \in 1..MaxFrames :
         main = [pc |-> "idle", task |-> 0, gui |-> g, nb_frames |-> nb]
    /\ cams = << [open |-> TRUE, grabbing |-> FALSE, bounded |-> FALSE, left |-> 0,
                  callers |-> {}] >>
    /\ workers = <<>>
    /\ CameraIdle
    /\ cmd = [pc |-> "idle"] /\ lima = [pc |-> "idle"]

RestartOthers == <<config, acq, calls, cam, fe, th, ui, hist, cmd, lima>>

\* on_start: a new Acquisition and a new thread on every click, whatever the
\* previous thread does; gui/app.py then waits for the thread's prepared event
\* (clean, the record of a camera that never failed, is kept for the
\* multi-camera command only)
RestartOnStart ==
    /\ main.pc = "idle"
    /\ Len(workers) < MaxThreads
    /\ workers' = Append(workers,
                         [pc |-> "prepare", exc |-> "none", nb |-> 0, clean |-> FALSE,
                          cam |-> 1,
                          acq |-> Acquisition(main.nb_frames, 100000, 0, None, <<1, 1>>,
                                              "internal"),
                          prepared_event |-> FALSE, start_trigger |-> FALSE])
    /\ main' = [main EXCEPT !.task = Len(workers) + 1,
                            !.pc = IF main.gui = "gui_app" THEN "wait_prepared"
                                   ELSE "idle"]
    /\ UNCHANGED <<cams, dev, RestartOthers>>

\* on_start of gui/app.py past task.prepared_event.wait(): start_trigger.set()
RestartRelease ==
    /\ main.pc = "wait_prepared"
    /\ workers[main.task].prepared_event
    /\ workers' = [workers EXCEPT ![main.task].start_trigger = TRUE]
    /\ main' = [main EXCEPT !.pc = "idle"]
    /\ UNCHANGED <<cams, dev, RestartOthers>>

\* the thread's acq.prepare(); whether the device takes the writes while
\* another thread's grab runs is the device's choice (locked)
RestartPrepare(k) ==
    /\ workers[k].pc = "prepare"
    /\ \E locked \in BOOLEAN :
         LET r == AcquisitionPrepare(workers[k].acq, [dev EXCEPT !.log = <<>>])
             e == IF locked THEN "AccessException" ELSE r.dev.exc
         IN  /\ locked => cams[1].grabbing
             /\ dev' = IF locked THEN dev ELSE [r.dev EXCEPT !.exc = "none"]
             /\ workers' = [workers EXCEPT
                   ![k].acq = IF locked THEN @ ELSE r.acq,
                   ![k].exc = e,
                   ![k].prepared_event = (e = "none" /\ main.gui = "gui_app"),
                   ![k].pc = IF e # "none" THEN "done"
                             ELSE IF main.gui = "gui_app" THEN "wait_start"
                             ELSE "start"]
    /\ UNCHANGED <<cams, main, RestartOthers>>

\* start_trigger.wait() of _acq_loop
RestartWaitStart(k) ==
    /\ workers[k].pc = "wait_start"
    /\ workers[k].start_trigger
    /\ workers' = [workers EXCEPT ![k].pc = "start"]
    /\ UNCHANGED <<cams, main, dev, RestartOthers>>

\* on_stop: camera.StopGrabbing(), then join the thread held in task (the
\* latest one)
RestartOnStop ==
    /\ main.pc = "idle"
    /\ cams' = [cams EXCEPT ![1] = WithHandle(@, StopGrabbing(Handle(@)))]
    /\ main' = [main EXCEPT !.pc = IF main.task # 0 THEN "joining" ELSE "idle"]
    /\ UNCHANGED <<workers, dev, RestartOthers>>

RestartJoined ==
    /\ main.pc = "joining"
    /\ workers[main.task].pc = "done"
    /\ main' = [main EXCEPT !.pc = "idle",
                            !.task = IF main.gui = "gui_app" THEN 0 ELSE @]
    /\ UNCHANGED <<workers, cams, dev, RestartOthers>>

RestartNext ==
    \/ RestartOnStart
    \/ RestartRelease
    \/ \E k \in DOMAIN workers : RestartPrepare(k)
    \/ \E k \in DOMAIN workers : RestartWaitStart(k)
    \/ \E k \in DOMAIN workers : WorkerStart(k)
    \/ \E k \in DOMAIN workers : WorkerNext(k)
    \/ \E k \in DOMAIN workers : WorkerRetrieve(k)
    \/ \E k \in DOMAIN workers : WorkerRelease(k)
    \/ RestartOnStop
    \/ RestartJoined

SpecRestart == RestartInit /\ [][RestartNext]_vars

(* ================================================================= claims *)
LastCall == calls[Len(calls)]

\* the log holds the writes of a prepare_acq run
RanPrepareAcq == calls # <<>> /\ LastCall.op = "prepare" /\ ~LastCall.prepared

LogIdx == 1..Len(dev.log)

(* C4: once a prepare() call on an Acquisition has returned, every later
   prepare() call on it writes no register: the configuration's register
   writes are applied once. *)
C4_PrepareAppliesOnce ==
    \A i, j \in 1..Len(calls) :
        (i < j /\ calls[i].op = "prepare" /\ calls[j].op = "prepare"
           /\ calls[i].exc = "none")
        => calls[j].n = 0

C4_Witness ==
    /\ Len(calls) >= 2
    /\ calls[1].op = "prepare" /\ calls[1].exc = "none" /\ calls[1].n > 0
    /\ calls[2].op = "prepare" /\ calls[2].prepared /\ calls[2].n = 0

\* the selector a selector-scoped write at position i of the log goes to
SelectorAt(i) ==
    LET js == { j \in 1..(i - 1) : dev.log[j][1] = "TriggerSelector" }
    IN  IF js = {} THEN "none"
        ELSE dev.log[CHOOSE j \in js : \A k \in js : k <= j][2]

IsWrite(i, reg, val) == dev.log[i][1] = reg /\ dev.log[i][2] = val

RequestedSoftware ==
    /\ calls # <<>> /\ LastCall.op = "set_trigger"
    /\ TRIGGER_SOURCE_MAP[Lower(LastCall.source)] = "Software"

(* C7: set_trigger with source Software writes TriggerMode Off exactly once
   for every selector the device lists, then writes TriggerMode On for
   exactly one selector (FrameStart if listed) with TriggerSource Software,
   and AcquisitionMode Continuous; no Off write follows the On write. *)
C7_SoftwareTrigger ==
    RequestedSoftware =>
        LET offs == { i \in LogIdx : IsWrite(i, "TriggerMode", "Off") }
            ons  == { i \in LogIdx : IsWrite(i, "TriggerMode", "On") }
        IN  /\ \A s \in Range(dev.selectors) :
                 Cardinality({ i \in offs : SelectorAt(i) = s }) = 1
            /\ Cardinality(offs) = Len(dev.selectors)
            /\ Cardinality(ons) = 1
            /\ \A i \in ons :
                 /\ \A j \in offs : j < i
                 /\ Contains(dev.selectors, "FrameStart") => SelectorAt(i) = "FrameStart"
                 /\ \E j \in LogIdx :
                      j > i /\ IsWrite(j, "TriggerSource", "Software")
                            /\ SelectorAt(j) = SelectorAt(i)
                 /\ dev.trig[SelectorAt(i)].TriggerMode = "On"
                 /\ dev.trig[SelectorAt(i)].TriggerSource = "Software"
                 /\ \A s \in Range(dev.selectors) \ {SelectorAt(i)} :
                      dev.trig[s].TriggerMode = "Off"
            /\ \E i \in LogIdx : IsWrite(i, "AcquisitionMode", "Continuous")
            /\ dev.regs.AcquisitionMode = "Continuous"
            /\ \A i \in LogIdx : dev.log[i][3] = "ok"

C7_Witness ==
    /\ RequestedSoftware
    /\ Len(dev.selectors) >= 2
    /\ dev.selectors[1] # "FrameStart"
    /\ Contains(dev.selectors, "FrameStart")
    /\ dev.trig["FrameStart"].TriggerMode = "On"
    /\ dev.trig[dev.selectors[1]].TriggerMode = "Off"
    /\ Len(calls) >= 2
    /\ TRIGGER_SOURCE_MAP[Lower(calls[1].source)] = "Line1"

Fits(roi, d) ==
    /\ roi # None
    /\ roi[1] >= 0 /\ roi[2] >= 0 /\ roi[3] >= 1 /\ roi[4] >= 1
    /\ roi[1] + roi[3] <= d.WidthMax
    /\ roi[2] + roi[4] <= d.HeightMax

ReachedGeometry == \E i \in LogIdx : dev.log[i][1] = "OffsetX"

(* C8: for a ROI (x, y, w, h) that fits the sensor, from any valid starting
   geometry, none of the writes of prepare_acq commands an offset + size
   beyond WidthMax or HeightMax (no write is refused as out of range), and
   once its geometry section has run the device holds Width = w, Height = h,
   OffsetX = x, OffsetY = y. *)
C8_RoiApplied ==
    (RanPrepareAcq /\ Fits(acq.roi, dev)) =>
        /\ \A i \in LogIdx : dev.log[i][3] # "OutOfRange"
        /\ dev.exc # "OutOfRange"
        /\ dev.regs.OffsetX + dev.regs.Width <= dev.WidthMax
        /\ dev.regs.OffsetY + dev.regs.Height <= dev.HeightMax
        /\ ReachedGeometry =>
             /\ dev.regs.Width = acq.roi[3]
             /\ dev.regs.Height = acq.roi[4]
             /\ dev.regs.OffsetX = acq.roi[1]
             /\ dev.regs.OffsetY = acq.roi[2]
             /\ Cardinality({ i \in LogIdx :
                   dev.log[i][1] \in {"OffsetX", "OffsetY", "Width", "Height"} }) = 8

C8_Witness ==
    /\ RanPrepareAcq /\ Len(calls) = 1
    /\ Fits(acq.roi, dev)
    /\ acq.roi[1] > 0 /\ acq.roi[2] > 0
    /\ acq.roi[1] + acq.roi[3] = dev.WidthMax
    /\ dev.exc = "none"
    /\ dev.regs.OffsetX = acq.roi[1] /\ dev.regs.Width = acq.roi[3]
    /\ dev.regs.OffsetY = acq.roi[2] /\ dev.regs.Height = acq.roi[4]

Scheme(reg) ==
    CASE reg = "ExposureTime" -> 1
      [] reg = "ExposureTimeAbs" -> 2
      [] reg \in {"ExposureTimeBaseAbs", "ExposureTimeRaw"} -> 3
      [] OTHER -> 0

(* C9: prepare_acq tries the exposure schemes in the order ExposureTime,
   ExposureTimeAbs, base+raw: its first write goes to ExposureTime, a write
   to a later scheme's register comes only after the scheme before it was
   refused with LogicalError, and after an accepted write of one scheme no
   register of another scheme is written. *)
C9_ExposureOrder ==
    RanPrepareAcq =>
        /\ dev.log # <<>> /\ dev.log[1][1] = "ExposureTime"
        /\ \A i \in LogIdx :
             LET k == Scheme(dev.log[i][1])
             IN  /\ k >= 2 =>
                      \E j \in 1..(i - 1) :
                          Scheme(dev.log[j][1]) = k - 1 /\ dev.log[j][3] = "LogicalError"
                 /\ (k >= 1 /\ dev.log[i][3] = "ok") =>
                      \A j \in LogIdx : j > i => Scheme(dev.log[j][1]) \in {0, k}

C9_Witness ==
    /\ RanPrepareAcq
    /\ {"ExposureTimeAbs", "ExposureTimeBaseAbs", "ExposureTimeRaw"} \subseteq dev.nodes
    /\ Len(dev.log) >= 2
    /\ dev.log[1][1] = "ExposureTime" /\ dev.log[1][3] = "LogicalError"
    /\ dev.log[2][1] = "ExposureTimeAbs" /\ dev.log[2][3] = "ok"
    /\ dev.exc = "none"

RejectsFirstTwo ==
    /\ "ExposureTime" \notin dev.nodes /\ "ExposureTimeAbs" \notin dev.nodes
    /\ {"ExposureTimeBaseAbs", "ExposureTimeRaw"} \subseteq dev.nodes

RawWrites == { i \in LogIdx : dev.log[i][1] = "ExposureTimeRaw" }

(* C10 as stated: on a device that rejects the first two schemes the raw
   count written is ceil(exposure_seconds / 50e-6), the exposure in units of
   50 microseconds rounded up. *)
C10_RawIs50usUnits ==
    (RanPrepareAcq /\ RejectsFirstTwo) =>
        /\ RawWrites # {}
        /\ \A i \in RawWrites : dev.log[i][2] = CeilDiv(acq.exposure, 50)

(* C10 amended: on a device that rejects the first two schemes prepare_acq
   applies the base+raw scheme and the raw count it writes is
   ceil(exposure_seconds / 50): the least integer raw with
   raw * 50 s >= exposure. *)
C10_RawIsCeilOf50s ==
    (RanPrepareAcq /\ RejectsFirstTwo) =>
        /\ Cardinality(RawWrites) = 1
        /\ \A i \in RawWrites :
             /\ dev.log[i][3] = "ok"
             /\ dev.log[i][2] * 50000000 >= acq.exposure
             /\ (dev.log[i][2] - 1) * 50000000 < acq.exposure
             /\ i > 1 /\ IsWrite(i - 1, "ExposureTimeBaseAbs", 100)

C10_Witness ==
    /\ RanPrepareAcq /\ RejectsFirstTwo
    /\ acq.exposure = 50000001
    /\ \E i \in RawWrites : dev.log[i][2] = 2
    /\ dev.regs.ExposureTimeRaw = 2
    /\ dev.exc = "none"

GeometryWrites ==
    { i \in LogIdx : dev.log[i][1] \in {"OffsetX", "OffsetY", "Width", "Height"} }

HBinningWrites == { i \in LogIdx : dev.log[i][1] = "BinningHorizontal" }

BinningRequested == RanPrepareAcq /\ acq.binning # <<1, 1>> /\ dev.exc = "none"

(* C21 as stated: in prepare_acq the requested binning is written before
   the final ROI width, height and offsets are written. *)
C21_BinningBeforeRoi ==
    BinningRequested =>
        \E i \in HBinningWrites :
            /\ dev.log[i][2] = acq.binning[1]
            /\ \E j \in GeometryWrites : i < j

(* C21 amended: prepare_acq writes the requested binning last, after the
   final ROI width, height and offsets; what precedes the geometry writes
   is only the reset of the binning to 1 x 1. *)
C21_BinningAfterRoi ==
    BinningRequested =>
        /\ Cardinality(HBinningWrites) = 2
        /\ \E i, k \in HBinningWrites :
             /\ i < k
             /\ dev.log[i][2] = 1 /\ dev.log[i + 1] = <<"BinningVertical", 1, "ok">>
             /\ dev.log[k][2] = acq.binning[1]
             /\ k + 1 = Len(dev.log)
             /\ dev.log[k + 1] = <<"BinningVertical", acq.binning[2], "ok">>
             /\ Cardinality(GeometryWrites) = 8
             /\ \A j \in GeometryWrites : i < j /\ j < k
        /\ dev.regs.BinningHorizontal = acq.binning[1]
        /\ dev.regs.BinningVertical = acq.binning[2]

C21_Witness ==
    /\ BinningRequested
    /\ acq.binning = <<2, 1>> /\ acq.roi = <<1, 0, 1, 1>>
    /\ dev.regs.BinningHorizontal = 2
    /\ dev.regs.Width = 1 /\ dev.regs.OffsetX = 1
    /\ dev.log[Len(dev.log) - 1] = <<"BinningHorizontal", 2, "ok">>

RequestedSource == TRIGGER_SOURCE_MAP[Lower(LastCall.source)]

ActivationWrites == { i \in LogIdx : dev.log[i][1] = "TriggerActivation" }

(* C22: for a requested source other than Off, set_trigger turns On the
   FrameStart selector if the device lists it and otherwise the first
   listed selector, and it writes the activation edge (RisingEdge, under
   that selector, after the source) if and only if the source is not
   Software. *)
C22_SelectorAndActivation ==
    (calls # <<>> /\ LastCall.op = "set_trigger" /\ RequestedSource # "Off") =>
        LET ons == { i \in LogIdx : IsWrite(i, "TriggerMode", "On") }
            chosen == IF "FrameStart" \in Range(dev.selectors)
                      THEN "FrameStart" ELSE dev.selectors[1]
        IN  /\ Cardinality(ons) = 1
            /\ \A i \in ons :
                 /\ SelectorAt(i) = chosen
                 /\ dev.log[i + 1] = <<"TriggerSource", RequestedSource, "ok">>
                 /\ RequestedSource # "Software" =>
                      /\ ActivationWrites = {i + 2}
                      /\ dev.log[i + 2] = <<"TriggerActivation", "RisingEdge", "ok">>
            /\ RequestedSource = "Software" => ActivationWrites = {}
            /\ (ActivationWrites = {}) <=> (RequestedSource = "Software")

C22_Witness ==
    /\ calls # <<>> /\ LastCall.op = "set_trigger" /\ RequestedSource = "Line1"
    /\ dev.selectors = <<"AcquisitionStart", "FrameStart", "LineStart">>
    /\ dev.regs.TriggerSelector = "FrameStart"
    /\ dev.trig["FrameStart"].TriggerMode = "On"
    /\ dev.trig["FrameStart"].TriggerSource = "Line1"
    /\ ActivationWrites # {}

PrepareCalls == { i \in 1..Len(calls) : calls[i].op = "prepare" }

(* C28: when the configuration writes raise during Acquisition.prepare(),
   the prepared flag stays False, and a later prepare() on the same
   Acquisition runs the configuration writes again: it is not skipped as
   already prepared. *)
C28_FailedPrepareIsRetried ==
    /\ acq.prepared <=> \E i \in PrepareCalls : calls[i].exc = "none"
    /\ \A j \in PrepareCalls :
         (\A i \in PrepareCalls : i < j => calls[i].exc # "none") =>
             /\ ~calls[j].prepared
             /\ calls[j].n > 0

C28_Witness ==
    /\ Len(calls) = 2
    /\ calls[1].op = "prepare" /\ calls[1].exc = "OutOfRange" /\ calls[1].n > 0
    /\ calls[2].op = "prepare" /\ ~calls[2].prepared /\ calls[2].n = calls[1].n
    /\ ~acq.prepared

(* ------------------------------------------------------ sequencer claims *)
Ended == hist.started /\ th.pc = "done"

\* ended without an exception and without an external stop request
EndedUndisturbed == Ended /\ th.exc = "none" /\ hist.requests = 0

FailedValues == { i \in 1..Len(hist.outcomes) : hist.outcomes[i] = "failed" }

(* C1 as stated: with nb_frames = N > 0, once start-grab was issued, a run
   that ends (here: with no exception and no external stop) has yielded
   exactly N frame outcomes and issued exactly one StopGrabbing call. *)
C1_NFramesThenOneStop ==
    (acq.nb_frames > 0 /\ EndedUndisturbed) =>
        /\ Len(hist.outcomes) = acq.nb_frames
        /\ hist.stops = 1

(* C2 as stated: with nb_frames = 0 the sequence ends only after an external
   stop was requested, StopGrabbing is called exactly once, and no frame is
   yielded after it. *)
C2_UnboundedUntilStopped ==
    (acq.nb_frames = 0 /\ Ended) =>
        /\ hist.requests > 0
        /\ hist.stops = 1
        /\ hist.after_stop = 0

(* C3 as stated: whenever an acquisition sequence has ended, on any path, a
   StopGrabbing command was issued and the device is not grabbing. *)
C3_StopOnEveryExit ==
    Ended => (hist.stops >= 1 /\ ~cam.grabbing)

(* C5 as stated: at most one retrieved result is unreleased at any time, and
   no retrieval is issued while a result is unreleased, in every front end. *)
C5_OneFrameInFlight ==
    /\ hist.unreleased <= 1
    /\ th.pc = "retrieve" => hist.unreleased = 0

(* C6 as stated: every per-frame error, a failed grab or a retrieval
   timeout, is delivered as a failed-Frame value of the sequence. *)
C6_PerFrameErrorsAreValues ==
    hist.failed + hist.timeouts = Cardinality(FailedValues)

(* C6 amended: a failed grab is delivered as a failed-Frame value of the
   sequence, not as an exception, and does not end it: a run with no
   exception and no external stop yields all nb_frames frames, failed ones
   among them.  A retrieval that exceeds its timeout raises an exception
   out of __next__ and the front end's iteration ends with it. *)
C6_FailedGrabIsValue ==
    /\ hist.failed = Cardinality(FailedValues)
    /\ hist.timeouts > 0 =>
         /\ hist.timeouts = 1
         /\ th.exc = "TimeoutException"
         /\ th.pc \in {"exit", "done"}
    /\ (acq.nb_frames > 0 /\ EndedUndisturbed) => Len(hist.outcomes) = acq.nb_frames

C6_Witness ==
    /\ EndedUndisturbed
    /\ acq.nb_frames = 2
    /\ hist.outcomes = <<"failed", "ok">>
    /\ hist.failed = 1

SdkIdx == 1..Len(hist.sdk)

RetrieveCalls == { i \in SdkIdx : hist.sdk[i][1] = "RetrieveResult" }

(* C11 as stated: the timeout passed to every RetrieveResult call is
   ceil((exposure + latency + 1) * 1000) milliseconds, so it is never less
   than (exposure + latency + 1) * 1000 ms. *)
C11_TimeoutIsCeil ==
    \A i \in RetrieveCalls :
        /\ hist.sdk[i][2] = CeilDiv(acq.exposure + acq.latency + MicroPerSecond, 1000)
        /\ hist.sdk[i][2] * 1000 >= acq.exposure + acq.latency + MicroPerSecond

(* C11 amended: the timeout passed to every RetrieveResult call is
   (exposure + latency + 1) * 1000 milliseconds truncated to an integer: it
   is at most that value and less than one millisecond below it, and it is
   1150 ms for exposure 0.1 s and latency 0.05 s. *)
C11_TimeoutIsTruncated ==
    \A i \in RetrieveCalls :
        /\ hist.sdk[i][2] * 1000 <= acq.exposure + acq.latency + MicroPerSecond
        /\ (hist.sdk[i][2] + 1) * 1000 > acq.exposure + acq.latency + MicroPerSecond
        /\ (acq.exposure = 100000 /\ acq.latency = 50000) => hist.sdk[i][2] = 1150

C11_Witness ==
    /\ acq.exposure = 75 /\ acq.latency = 1
    /\ \E i \in RetrieveCalls : hist.sdk[i][2] = 1000
    /\ Len(hist.outcomes) >= 1

ExceedsSensor == acq.roi # None /\ ~Fits(acq.roi, dev)

(* C12: when the requested ROI exceeds the sensor bounds, prepare() raises
   the device's out-of-range error to its caller and leaves the plan
   unprepared, the acquisition thread ends with that error (the CLI command
   leaves its with block with it), and no start-grab command is issued. *)
C12_BadRoiNeverStarts ==
    ExceedsSensor =>
        /\ ~hist.started /\ ~cam.grabbing /\ ~acq.prepared
        /\ hist.sdk = <<>>
        /\ (calls # <<>> /\ LastCall.op = "prepare") =>
             /\ Cardinality({ i \in 1..Len(calls) : calls[i].op = "prepare" }) = 1
             /\ LastCall.exc = "OutOfRange"
             /\ \E i \in LogIdx : dev.log[i][3] = "OutOfRange"
             /\ th.exc = "OutOfRange"
             /\ th.pc \in {"exit", "done"}

C12_Witness ==
    /\ ExceedsSensor
    /\ acq.roi[2] + acq.roi[4] > dev.HeightMax
    /\ fe = "cli" /\ th.pc = "done" /\ th.exc = "OutOfRange"
    /\ ~cam.open /\ ~hist.started
    /\ dev.log[Len(dev.log)] = <<"OffsetY", 1, "OutOfRange">>

EnableWrites == { i \in LogIdx : dev.log[i][1] = "AcquisitionFrameRateEnable" }

RateWrites == { i \in LogIdx : dev.log[i][1] = "AcquisitionFrameRateAbs" }

(* C15: prepare_acq, once it has resolved the exposure, writes
   AcquisitionFrameRateEnable exactly once: False and no frame rate when
   latency < 1 microsecond; otherwise True, followed by one write of the
   frame rate 1 / (exposure + latency) Hz (held in millihertz, rounded
   down). *)
C15_FramePacing ==
    RanPrepareAcq =>
        /\ Cardinality(EnableWrites) <= 1
        /\ ReachedGeometry => Cardinality(EnableWrites) = 1
        /\ \A i \in EnableWrites :
             /\ dev.log[i][2] = (acq.latency >= 1)
             /\ dev.regs.AcquisitionFrameRateEnable = (acq.latency >= 1)
             /\ \A j \in 1..(i - 1) : Scheme(dev.log[j][1]) >= 1
        /\ acq.latency < 1 => RateWrites = {}
        /\ acq.latency >= 1 =>
             /\ RateWrites = { i + 1 : i \in EnableWrites }
             /\ \A i \in RateWrites :
                  /\ dev.log[i][2] * (acq.exposure + acq.latency)
                         <= 1000 * MicroPerSecond
                  /\ (dev.log[i][2] + 1) * (acq.exposure + acq.latency)
                         > 1000 * MicroPerSecond
                  /\ dev.regs.AcquisitionFrameRateAbs = dev.log[i][2]

C15_Witness ==
    /\ RanPrepareAcq /\ dev.exc = "none"
    /\ acq.exposure = 100000 /\ acq.latency = 50000
    /\ dev.regs.AcquisitionFrameRateEnable = TRUE
    /\ \E i \in RateWrites : dev.log[i][2] = 6666

PulseCalls == { i \in SdkIdx : hist.sdk[i][1] = "ExecuteSoftwareTrigger" }

ReadyWaits == { i \in SdkIdx : hist.sdk[i][1] = "WaitForFrameTriggerReady" }

(* C16: with the software trigger every RetrieveResult call is preceded, in
   this order, by one WaitForFrameTriggerReady call bounded at 100 ms and
   one ExecuteSoftwareTrigger call, and every pulse is followed by its
   retrieval, so pulses issued = retrievals issued; with any other trigger
   no pulse and no readiness wait is ever issued. *)
C16_PulsePerRetrieval ==
    /\ acq.trigger = "software" =>
         /\ \A i \in RetrieveCalls :
              /\ i >= 3
              /\ hist.sdk[i - 1][1] = "ExecuteSoftwareTrigger"
              /\ hist.sdk[i - 2][1] = "WaitForFrameTriggerReady"
              /\ hist.sdk[i - 2][2] = TriggerReadyMs
         /\ \A i \in PulseCalls : i + 1 \in RetrieveCalls
         /\ \A i \in ReadyWaits : i + 1 \in SdkIdx => i + 1 \in PulseCalls
         /\ Cardinality(PulseCalls) = Cardinality(RetrieveCalls)
         /\ hist.pulses = Cardinality(PulseCalls)
    /\ acq.trigger # "software" =>
         /\ PulseCalls = {} /\ ReadyWaits = {}
         /\ hist.pulses = 0

C16_Witness ==
    /\ acq.trigger = "software"
    /\ Cardinality(RetrieveCalls) = 2
    /\ hist.pulses = 2
    /\ Len(hist.sdk) = 7
    /\ th.exc = "TimeoutException"

(* C17 as stated: start-grab is issued only after prepare() has completed,
   and every trigger or retrieve call is issued while the device reports
   Grabbing. *)
C17_CallsOnlyWhileGrabbing ==
    /\ hist.started => acq.prepared
    /\ \A i \in SdkIdx : hist.sdk[i][3]

SelectorsOn == { x \in Range(dev.selectors) : dev.trig[x].TriggerMode = "On" }

(* C18: after any sequence of set_trigger calls, from any initial trigger
   state of the device, at most one trigger selector has TriggerMode On and
   the active policy is the one the last call asked for: no selector is On
   after Internal; after Software or Line1 the one selector that is On
   (FrameStart if listed, else the first) has that TriggerSource. *)
C18_OnePolicyActive ==
    (calls # <<>> /\ LastCall.op = "set_trigger") =>
        LET src == TRIGGER_SOURCE_MAP[Lower(LastCall.source)]
        IN  /\ Cardinality(SelectorsOn) <= 1
            /\ src = "Off" => SelectorsOn = {}
            /\ src # "Off" =>
                 /\ SelectorsOn = { ChooseSelector(dev.selectors) }
                 /\ \A x \in SelectorsOn : dev.trig[x].TriggerSource = src
            /\ dev.exc = "none"

C18_Witness ==
    /\ Len(calls) = 2
    /\ calls[1].op = "set_trigger" /\ calls[1].source = "software"
    /\ calls[2].source = "Line1"
    /\ dev.selectors = <<"AcquisitionStart", "LineStart">>
    /\ dev.trig["AcquisitionStart"] =
           [TriggerMode |-> "On", TriggerSource |-> "Line1",
            TriggerActivation |-> "RisingEdge"]
    /\ dev.trig["LineStart"].TriggerMode = "Off"

(* C13 as stated: once a GUI on_stop has called StopGrabbing and waits in
   join for the acquisition thread, the thread makes at most one further
   retrieval before it ends, wherever the thread was when the stop came
   (prepare, start, retrieve) and for every nb_frames, 0 included. *)
C13_StopWithinOneRetrieval ==
    IsGui => hist.joining <= 1

(* C25 as stated: whenever the sequencer has issued a software trigger
   pulse, the Configuration registered on the camera has trigger_source
   software and the device was configured on open with the Software
   trigger source, in the single-camera and in the multi-camera command. *)
C25_TriggerMatchesConfiguration ==
    (IsCli /\ hist.pulses > 0) =>
        /\ config.trigger_source = acq.trigger
        /\ \E x \in Range(dev.selectors) :
             /\ dev.trig[x].TriggerMode = "On"
             /\ dev.trig[x].TriggerSource = "Software"

(* C27 as stated: GUI on_start always returns: it is never left waiting
   for a prepared event that no path of the acquisition thread will set,
   also when prepare fails. *)
C27_OnStartNeverStuck ==
    ~(ui.main = "wait_prepared" /\ th.pc = "done" /\ ~ui.prepared_event)

(* ---------------------------------------------------- configuration claims *)
PacingRegs == {"GevSCPSPacketSize", "GevSCPD", "GevSCFTD"}

NetworkRegs == PacingRegs \cup {"OutputQueueSize"}

TriggerRegs ==
    {"TriggerSelector", "TriggerMode", "TriggerSource", "TriggerActivation",
     "AcquisitionMode"}

WritesOf(regs) == { i \in LogIdx : dev.log[i][1] \in regs }

\* the log holds the writes of an OnOpened run
RanOnOpened == calls # <<>> /\ LastCall.op = "open"

NoWriteRefused == \A i \in LogIdx : dev.log[i][3] = "ok"

(* C14 as stated: packet size, inter-packet delay, frame transmission delay
   and output queue depth are written only when the transport is GigE, at
   most once per open, and never by a prepare call. *)
C14_NetworkOnlyOnGigE ==
    /\ RanOnOpened =>
         /\ \A reg \in NetworkRegs : Cardinality(WritesOf({reg})) <= 1
         /\ ~dev.gige => WritesOf(NetworkRegs) = {}
    /\ (calls # <<>> /\ LastCall.op = "prepare") => WritesOf(NetworkRegs) = {}

(* C14 amended: packet size, inter-packet delay and frame transmission
   delay are written only when the transport is GigE; the output queue
   depth is written on every transport; each of the four is written at most
   once per open of the handle (all of them, with the Configuration's
   values and the queue depth last, when the device refuses no write), and
   none is written by a prepare call. *)
C14_PacingOnlyOnGigE ==
    /\ RanOnOpened =>
         /\ \A reg \in NetworkRegs : Cardinality(WritesOf({reg})) <= 1
         /\ ~dev.gige => WritesOf(PacingRegs) = {}
         /\ (dev.gige /\ NoWriteRefused) =>
              /\ Len(dev.log) >= 4
              /\ SubSeq(dev.log, 1, 3) =
                    << <<"GevSCPSPacketSize", config.packet_size, "ok">>,
                       <<"GevSCPD", config.inter_packet_delay, "ok">>,
                       <<"GevSCFTD", config.frame_transmission_delay, "ok">> >>
         /\ NoWriteRefused =>
              /\ dev.log # <<>>
              /\ dev.log[Len(dev.log)] =
                    <<"OutputQueueSize", config.output_queue_size, "ok">>
    /\ (calls # <<>> /\ LastCall.op = "prepare") => WritesOf(NetworkRegs) = {}

C14_Witness ==
    /\ Len(calls) = 2
    /\ calls[1].op = "open" /\ calls[2].op = "prepare" /\ calls[2].n > 0
    /\ ~dev.gige
    /\ dev.regs.OutputQueueSize = 5
    /\ dev.regs.GevSCPSPacketSize = 0

PacingRefused == \E i \in WritesOf(PacingRegs) : dev.log[i][3] # "ok"

(* C19 as stated: when a write of a network pacing parameter fails in the
   on-open configuration, the failure is logged and not raised, and the
   steps after it are still carried out: the trigger configuration (when
   TriggerSelector is writable) and the write of the output queue size. *)
C19_PacingFailureDoesNotBlock ==
    (RanOnOpened /\ PacingRefused) =>
        /\ dev.exc = "none"
        /\ Contains(dev.msgs, "OnOpened error")
        /\ WritesOf({"OutputQueueSize"}) # {}
        /\ dev.access \in {"WO", "RW"} => WritesOf({"AcquisitionMode"}) # {}

Unwritable == dev.access \notin {"WO", "RW"}

(* C20 as stated: when TriggerSelector is not writable the on-open
   configuration writes no trigger register and raises no error, the
   condition is logged, and when no other write is refused the rest of the
   configuration completes. *)
C20_UnwritableSelectorLogged ==
    (RanOnOpened /\ Unwritable) =>
        /\ WritesOf(TriggerRegs) = {}
        /\ dev.exc = "none"
        /\ \E i \in 1..Len(dev.msgs) :
             dev.msgs[i] \notin { "OnOpened: Preparing network parameters",
                                  "OnOpened: Finished configuration",
                                  "OnOpened error" }
        /\ NoWriteRefused =>
             /\ WritesOf({"OutputQueueSize"}) # {}
             /\ Contains(dev.msgs, "OnOpened: Finished configuration")

(* C20 amended: when TriggerSelector is not writable the on-open
   configuration writes no trigger register and raises no error, and when
   no other write is refused the rest of the configuration completes (the
   output queue size is written); nothing is logged about the condition:
   the log holds the same two messages as a run on a writable selector. *)
C20_UnwritableSelectorSkipped ==
    (RanOnOpened /\ Unwritable) =>
        /\ WritesOf(TriggerRegs) = {}
        /\ dev.exc = "none"
        /\ NoWriteRefused =>
             /\ WritesOf({"OutputQueueSize"}) # {}
             /\ dev.regs.OutputQueueSize = config.output_queue_size
             /\ dev.msgs = << "OnOpened: Preparing network parameters",
                              "OnOpened: Finished configuration" >>

C20_Witness ==
    /\ RanOnOpened /\ dev.access = "RO"
    /\ dev.gige /\ NoWriteRefused
    /\ config.trigger_source = "internal"
    /\ \A x \in Range(dev.selectors) : dev.trig[x].TriggerMode = "On"
    /\ dev.regs.OutputQueueSize = 5
    /\ dev.regs.GevSCPSPacketSize = 1500
    /\ Len(dev.log) = 4

(* ------------------------------------------------------ param write claim *)
GivenNames == EveryOther(cmd.params, 1)

GivenValues == EveryOther(cmd.params, 2)

KnownName(n) == \E x \in DOMAIN ParamTypes : LowerCase(x) = LowerCase(n)

SomeNameUnknown == \E k \in 1..Len(GivenNames) : ~KnownName(GivenNames[k])

Converts(n, v) ==
    LET type == ParamTypes[CHOOSE x \in DOMAIN ParamTypes : LowerCase(x) = LowerCase(n)]
    IN  \/ type \in {"IInteger", "IFloat"} /\ v \in {"0", "1", "2", "9"}
        \/ type = "IBoolean"

SomeValueUnconvertible ==
    \E k \in 1..Len(GivenValues) :
        KnownName(GivenNames[k]) /\ ~Converts(GivenNames[k], GivenValues[k])

ParamWrites == { i \in LogIdx : dev.log[i][1] \in DOMAIN ParamTypes }

(* C29: when a given parameter name is unknown or a given value cannot be
   converted to its parameter's type, the `param write` command never opens
   the camera and writes nothing, and it ends with exit code 1 (unknown
   name) or 3 (value); when it does open the camera every name has been
   resolved and every value encoded. *)
C29_NothingWrittenOnBadArguments ==
    /\ (SomeNameUnknown \/ SomeValueUnconvertible) =>
         /\ ~cam.open /\ calls = <<>> /\ dev.log = <<>>
         /\ cmd.pc \in {"resolve", "encode", "done"}
         /\ cmd.pc = "done" => cmd.exit = IF SomeNameUnknown THEN 1 ELSE 3
    /\ ParamWrites # {} =>
         /\ ~SomeNameUnknown /\ ~SomeValueUnconvertible
         /\ Len(cmd.pars) = Len(GivenValues)

C29_Witness ==
    /\ cmd.pc = "done" /\ cmd.exit = 3
    /\ cmd.params = <<"width", "2", "Height", "x">>
    /\ ~cam.open /\ dev.log = <<>>
    /\ dev.regs.Width = MaxW

(* --------------------------------------------------- Lima interface claim *)
(* C30: once the acquisition thread of the Lima interface has ended, by any
   path including an exception raised in the acquisition loop, the status
   is Ready and the acquisition reference is cleared; the status is
   Exposure or Readout only while the thread is running. *)
C30_ReadyAfterThreadEnd ==
    /\ lima.pc = "ended" => (lima.status = "Ready" /\ ~lima.acq)
    /\ lima.status \in {"Exposure", "Readout"} => LimaThreadAlive

(* ---------------------------------------------------- multi-camera claims *)
WorkerBusy(k) == workers[k].pc \in {"start", "next", "retrieve", "release"}

(* C26: in the multi-camera acquire command no camera is closed while its
   own worker thread is still starting, retrieving or releasing, also when
   the worker of another camera has failed with an exception. *)
C26_NoCloseUnderWorker ==
    main.pc = "done" => \A k \in DOMAIN workers : ~WorkerBusy(k)

(* C24: the workers of different cameras share no mutable state: every
   start, trigger, retrieve and release of a worker goes to its own camera,
   and the number of frames a camera yields does not depend on the other
   cameras' workers: a worker whose own camera answered every retrieval
   with a good frame ends without exception after nb_frames frames. *)
C24_WorkersIndependent ==
    \A k \in DOMAIN workers :
        /\ cams[k].callers \subseteq {k}
        /\ (workers[k].pc = "done" /\ workers[k].clean) =>
               (workers[k].exc = "none" /\ workers[k].nb = workers[k].acq.nb_frames)

(* ------------------------------------------------------ GUI restart claim *)
SequencerThreads(c) ==
    { k \in DOMAIN workers : workers[k].cam = c /\ workers[k].pc # "done" }

(* C23: at most one acquisition sequencer thread exists per camera handle,
   also when the GUI's start is triggered again while a previous acquisition
   runs. *)
C23_OneSequencerPerCamera ==
    \A c \in DOMAIN cams : Cardinality(SequencerThreads(c)) <= 1

====
